---- MODULE Spec2Model ----
(***************************************************************************)
(* Probabilistic interleaving (src/interleaving/probabilistic.py).         *)
(*                                                                         *)
(* Objects are modelled on an explicit heap.  A reference is an integer:   *)
(* None is 0, the RemovalNode objects made by object.__new__ are 1, 2, ..  *)
(* and the RemovalList of ranker index r (the head sentinel, itself a      *)
(* RemovalNode) is -(r+1).  Document IDs are positive integers.  Floats    *)
(* are exact rationals <<numerator, denominator>>.                         *)
(***************************************************************************)
EXTENDS Integers, Sequences, FiniteSets

VARIABLES
    tau,                  \* Probabilistic.__init__ argument
    member_cache,         \* MemberCache(tau):    r -> 1 / r^tau
    sum_cache,            \* SumCache(tau):       n -> sum of 1 / r^tau, r in 1..n
    cumulation_cache,     \* CumulationCache(tau): n -> cumulative table
    mem,                  \* reference -> [next_value, next] (the __slots__)
    pool,                 \* RemovalNode._pool
    nalloc,               \* number of RemovalNode objects made by object.__new__
    rankings,             \* ranker index -> [dict, last] of its RemovalList
    exc,                  \* "" or the name of the exception that was raised
    op,                   \* the operation in progress
    pc,                   \* its position
    k,                    \* argument k
    lists,                \* argument lists (<<a, b>> for interleave)
    i,                    \* loop index of interleave
    ranker_indexes,       \* multileave: the indexes still to pop in this round
    result,               \* the Ranking (a list of documents)
    rank_to_ranker_index, \* result.rank_to_ranker_index
    number_of_rankers,    \* result.number_of_rankers
    retval,               \* "" (nothing yet), "result", "None" or "pairs"
    steps,                \* number of _advance calls made by the current call
    calls,                \* number of interleave / multileave calls started
    clicks,               \* evaluate: argument clicks
    counts,               \* evaluate: counts
    outcome,              \* evaluate: the list of pairs built
    removed,              \* documents passed to remove so far (RemovalList runs)
    recording,            \* whether the draws of this run are kept for a second run
    run,                  \* 1, or 2 for the run that reuses the draws of the first
    draw_tape,            \* the draws <<ranker_index, f>> kept / still to reuse
    shuffle_tape,         \* the shuffles kept / still to reuse
    first_result          \* what the first run returned

vars == <<tau, member_cache, sum_cache, cumulation_cache, mem, pool, nalloc,
          rankings, exc, op, pc, k, lists, i, ranker_indexes, result,
          rank_to_ranker_index, number_of_rankers, retval, steps, calls,
          clicks, counts, outcome, removed, recording, run, draw_tape, shuffle_tape,
          first_result>>

----------------------------------------------------------------------------
(* Bounds of the model *)

MaxTotal == 3
MaxK == 3
MaxRankers == 3
MultiTotal == 2
ReplayTotal == 2
ReplayK == 2
ReplayRankers == 2
MaxListLen == 3
MaxResult == 2
MaxClicks == 2
MaxAppends == 5
SeriesTotal == 2
SeriesK == 2
SeriesCalls == 2

(* Program constants *)

None == 0
DefaultTau == 3

NumNodes == 2 * (MaxTotal + MaxListLen)
Refs == ((0 - MaxRankers)..(0 - 1)) \cup (1..NumNodes)

\* Values of np.random.random(), which lies in [0, 1), for the calls of
\* Probabilistic(3.0): one in each cell of the tables of up to 3 entries
\* for tau = 3 (216/251, 243/251, 1 and 8/9, 1 and 1)
Draws == {<<0, 1>>, <<15, 16>>, <<31, 32>>}

\* Values of np.random.random() for the caches of tau = 1, 2 and 3: one in
\* each cell of every table of up to 4 entries (tau = 1: 12/25, 18/25,
\* 22/25, 1 and 6/11, 9/11, 1; tau = 2: 36/49, 45/49, 1; tau = 3 as above
\* and 0.849, 0.955, 0.987, 1)
ChooseDraws ==
    Draws \cup {<<1, 2>>, <<3, 4>>, <<127, 128>>}

----------------------------------------------------------------------------
(* Generic helpers *)

Min(x, y) == IF x < y THEN x ELSE y

Range(s) == {s[n] : n \in 1..Len(s)}

IsDistinct(s) == \A m, n \in 1..Len(s) : m # n => s[m] # s[n]

SeqsUpTo(S, n) == UNION {[1..m -> S] : m \in 0..n}

RECURSIVE MaxOf(_)
MaxOf(s) ==
    IF s = <<>> THEN 0
    ELSE LET m == MaxOf(Tail(s)) IN IF Head(s) > m THEN Head(s) ELSE m

RECURSIVE DocStrings(_)
\* Document IDs are opaque: the code only tests them for equality.  One
\* string of n document IDs is kept for every pattern of equalities, the
\* one that numbers the documents 1, 2, .. in the order of first occurrence.
DocStrings(n) ==
    IF n = 0 THEN {<<>>}
    ELSE UNION {{Append(s, d) : d \in 1..(MaxOf(s) + 1)} :
                s \in DocStrings(n - 1)}

RECURSIVE Splits(_, _)
\* the ways of cutting the string c into n consecutive lists
Splits(c, n) ==
    IF n = 0 THEN (IF c = <<>> THEN {<<>>} ELSE {})
    ELSE UNION {{<<SubSeq(c, 1, j)>> \o t :
                    t \in Splits(SubSeq(c, j + 1, Len(c)), n - 1)} :
                j \in 0..Len(c)}

\* the tuples of n lists of documents holding at most budget entries together
ListTuples(n, budget) ==
    UNION {UNION {Splits(c, n) : c \in DocStrings(m)} : m \in 0..budget}

\* the orders a draw with replacement could give
OrdersWithRepeats(n) == [1..n -> 0..(n - 1)]

\* np.random.shuffle : the orders of the indexes 0 .. n-1
Permutations(n) ==
    {p \in [1..n -> 0..(n - 1)] : \A a, b \in 1..n : a # b => p[a] # p[b]}

RECURSIVE Power(_, _)
Power(b, e) == IF e = 0 THEN 1 ELSE b * Power(b, e - 1)

(* Rationals *)

RatAdd(x, y) == <<x[1] * y[2] + y[1] * x[2], x[2] * y[2]>>
RatDiv(x, y) == <<x[1] * y[2], x[2] * y[1]>>
RatLess(x, y) == x[1] * y[2] < y[1] * x[2]
RatLeq(x, y) == x[1] * y[2] <= y[1] * x[2]
RatEq(x, y) == x[1] * y[2] = y[1] * x[2]

----------------------------------------------------------------------------
(* Python dict, which keeps insertion order: a sequence of [key, val] *)

DictHas(d, key) == \E n \in 1..Len(d) : d[n].key = key

DictIndex(d, key) == CHOOSE n \in 1..Len(d) : d[n].key = key

DictGet(d, key) == d[DictIndex(d, key)].val

\* d[key] = val : an existing key keeps its position
DictSet(d, key, val) ==
    IF DictHas(d, key)
    THEN [d EXCEPT ![DictIndex(d, key)] = [key |-> key, val |-> val]]
    ELSE Append(d, [key |-> key, val |-> val])

\* the dict after d.pop(key)
DictPop(d, key) ==
    LET n == DictIndex(d, key)
    IN  SubSeq(d, 1, n - 1) \o SubSeq(d, n + 1, Len(d))

DictKeys(d) == [n \in 1..Len(d) |-> d[n].key]

----------------------------------------------------------------------------
(* The memoized tables.  A cache is a function from the keys it holds. *)

EmptyCache == [n \in {} |-> <<0, 1>>]

CachePut(c, key, val) ==
    [n \in DOMAIN c \cup {key} |-> IF n = key THEN val ELSE c[n]]

\* MemberCache.__missing__ : 1.0 / r ** self.tau
MemberMissing(t, r) == <<1, Power(r, t)>>

\* member_cache after member_cache[r] was read for every r in 1..n
MemberFill(mc, t, n) ==
    [r \in DOMAIN mc \cup 1..n |->
        IF r \in DOMAIN mc THEN mc[r] ELSE MemberMissing(t, r)]

RECURSIVE MemberSum(_, _)
\* the sum of mc[1], ..., mc[n], added left to right
MemberSum(mc, n) ==
    IF n = 0 THEN <<0, 1>> ELSE RatAdd(MemberSum(mc, n - 1), mc[n])

\* SumCache.__missing__
SumMissing(mc, n) == MemberSum(mc, n)

\* __missing__ with result.append before numerator += member_cache[r]
CumulationMissing_appending_first(mc, denominator, l) ==
    LET m == IF l < 1 THEN 0 ELSE l - 1
    IN  [n \in 1..(m + 1) |->
            IF n = m + 1 THEN <<1, 1>>
            ELSE RatDiv(MemberSum(mc, n - 1), denominator)]

\* CumulationCache.__missing__ : the table for length l, given the caches
\* already filled up to l
\* (range(1, l) is empty for l = 0, and the 1 is appended all the same)
CumulationMissing(mc, denominator, l) ==
    LET m == IF l < 1 THEN 0 ELSE l - 1
    IN  [n \in 1..(m + 1) |->
            IF n = m + 1 THEN <<1, 1>>
            ELSE RatDiv(MemberSum(mc, n), denominator)]

\* The three caches after self[n] was read in choice_one_of
CacheLookup(W, n) ==
    IF n \in DOMAIN W.cumulation_cache THEN W
    ELSE LET mc1 == IF n \in DOMAIN W.sum_cache THEN W.member_cache
                    ELSE MemberFill(W.member_cache, W.tau, n)
             sc1 == IF n \in DOMAIN W.sum_cache THEN W.sum_cache
                    ELSE CachePut(W.sum_cache, n, SumMissing(mc1, n))
             mc2 == MemberFill(mc1, W.tau, n - 1)
         IN  [W EXCEPT !.member_cache = mc2,
                       !.sum_cache = sc1,
                       !.cumulation_cache =
                           CachePut(@, n, CumulationMissing(mc2, sc1[n], n))]

----------------------------------------------------------------------------
(* RemovalNode and RemovalList.  W is the record of the shared objects:    *)
(* the caches, mem, pool, nalloc, rankings and exc.  Once W.exc is set the *)
(* exception propagates and nothing more is done.                          *)

HeadRef(r) == 0 - (r + 1)

BlankNode == [next_value |-> None, next |-> None]

\* take_one that leaves the node it returns in the pool
take_one_without_pop(W) ==
    IF 0 < Len(W.pool)
    THEN [node |-> W.pool[Len(W.pool)], pool |-> W.pool, nalloc |-> W.nalloc]
    ELSE [node |-> W.nalloc + 1, pool |-> W.pool, nalloc |-> W.nalloc + 1]

\* RemovalNode.take_one : the node returned, and the pool and nalloc after it
take_one(W) ==
    IF 0 < Len(W.pool)
    THEN [node |-> W.pool[Len(W.pool)],
          pool |-> SubSeq(W.pool, 1, Len(W.pool) - 1),
          nalloc |-> W.nalloc]
    ELSE [node |-> W.nalloc + 1, pool |-> W.pool, nalloc |-> W.nalloc + 1]

\* follow without lines 90-91: self keeps the slots it was pooled with
follow_keeping_slots(m, self, prev, value) ==
    [m EXCEPT ![prev] = [next_value |-> value, next |-> self]]

\* RemovalNode.follow : mem after self.follow(prev, value)
follow(m, self, prev, value) ==
    LET m1 == [m EXCEPT ![prev] = [next_value |-> value, next |-> self]]
    IN  [m1 EXCEPT ![self] = BlankNode]

\* RemovalList.append on the list of ranker r
append(W, r, value) ==
    LET t == take_one(W)
        last == W.rankings[r].last
    IN  [W EXCEPT !.mem = follow(W.mem, t.node, last, value),
                  !.pool = t.pool,
                  !.nalloc = t.nalloc,
                  !.rankings[r] = [dict |-> DictSet(@.dict, value, last),
                                   last |-> t.node]]

RECURSIVE AppendAll(_, _, _)
\* for v in l: self.append(v)
AppendAll(W, r, l) ==
    IF l = <<>> THEN W ELSE AppendAll(append(W, r, Head(l)), r, Tail(l))

\* RemovalList.__init__ for ranker r (rankings must have r in its domain)
RemovalListInit(W, r, l) ==
    AppendAll([W EXCEPT !.mem[HeadRef(r)] = BlankNode,
                        !.rankings[r] = [dict |-> <<>>, last |-> HeadRef(r)]],
              r, l)

\* RemovalList.get_length
get_length(W, r) == Len(W.rankings[r].dict)

\* remove_next without line 95: self.next_value is left as it was
remove_next_keeping_value(W, self) ==
    LET nxt == W.mem[self].next
    IN  IF nxt = None
        THEN [W EXCEPT !.pool = Append(@, nxt), !.exc = "AttributeError"]
        ELSE [W EXCEPT !.pool = Append(@, nxt),
                       !.mem[self].next = W.mem[nxt].next]

\* RemovalNode.remove_next on node self: the pool gets self.next, then
\* self takes over the slots of self.next (AttributeError when it is None)
remove_next(W, self) ==
    LET nxt == W.mem[self].next
    IN  IF nxt = None
        THEN [W EXCEPT !.pool = Append(@, nxt), !.exc = "AttributeError"]
        ELSE [W EXCEPT !.pool = Append(@, nxt), !.mem[self] = W.mem[nxt]]

\* RemovalList.remove on the list of ranker r
remove(W, r, value) ==
    IF W.exc # "" \/ ~DictHas(W.rankings[r].dict, value) THEN W
    ELSE LET prev == DictGet(W.rankings[r].dict, value)
             W1 == [W EXCEPT !.rankings[r].dict = DictPop(@, value)]
             W2 == remove_next(W1, prev)
             new_next_value == W2.mem[prev].next_value
         IN  IF W2.exc = "" /\ new_next_value # None
             THEN [W2 EXCEPT !.rankings[r].dict =
                                 DictSet(@, new_next_value, prev)]
             ELSE W2

RECURSIVE RemoveEach(_, _, _)
RemoveEach(W, r, values) ==
    IF values = <<>> THEN W
    ELSE RemoveEach(remove(W, r, Head(values)), r, Tail(values))

\* RemovalList.truncate : removes the keys the dict held when it was called
truncate(W, r) == RemoveEach(W, r, DictKeys(W.rankings[r].dict))

RECURSIVE Walk(_, _, _)
\* what the n steps from node give, each as [value, exc]: the step reads
\* node.next_value and goes on to node.next, and raises AttributeError
\* where the chain has ended before it (node is None)
Walk(m, node, n) ==
    IF n = 0 THEN <<>>
    ELSE IF node = None
         THEN <<[value |-> None, exc |-> "AttributeError"]>>
                  \o Walk(m, None, n - 1)
    ELSE <<[value |-> m[node].next_value, exc |-> ""]>>
             \o Walk(m, m[node].next, n - 1)

RECURSIVE Scan_without_advance(_, _, _, _, _, _)
\* the loop of choice_one_of without line 72 (node = node.next)
Scan_without_advance(m, node, cumulation, f, idx, n) ==
    IF idx >= n THEN [value |-> None, exc |-> ""]
    ELSE IF node = None THEN [value |-> None, exc |-> "AttributeError"]
    ELSE IF RatLess(f, cumulation[idx + 1])
         THEN [value |-> m[node].next_value, exc |-> ""]
         ELSE Scan_without_advance(m, node, cumulation, f, idx + 1, n)

RECURSIVE Scan(_, _, _, _, _, _)
\* the loop of choice_one_of from index idx: [value, exc]
Scan(m, node, cumulation, f, idx, n) ==
    IF idx >= n THEN [value |-> None, exc |-> ""]
    ELSE IF node = None THEN [value |-> None, exc |-> "AttributeError"]
    ELSE IF RatLess(f, cumulation[idx + 1])
         THEN [value |-> m[node].next_value, exc |-> ""]
         ELSE Scan(m, m[node].next, cumulation, f, idx + 1, n)

\* CumulationCache.choice_one_of on the list of ranker r with draw f:
\* [W, value]
choice_one_of(W, r, f) ==
    LET n == get_length(W, r)
        W1 == CacheLookup(W, n)
        s == Scan(W1.mem, HeadRef(r), W1.cumulation_cache[n], f, 0, n)
    IN  [W |-> [W1 EXCEPT !.exc = s.exc], value |-> s.value]

RECURSIVE RemoveFromAll(_, _, _)
\* for r_l in input_rankings: r_l.remove(document), from ranker r on
RemoveFromAll(W, r, document) ==
    IF r >= Cardinality(DOMAIN W.rankings) THEN W
    ELSE RemoveFromAll(remove(W, r, document), r + 1, document)

RECURSIVE TruncateAll(_, _)
\* for ranking in rankings: ranking.truncate(), from ranker r on
TruncateAll(W, r) ==
    IF r >= Cardinality(DOMAIN W.rankings) THEN W
    ELSE TruncateAll(truncate(W, r), r + 1)

RECURSIVE BuildAll(_, _, _)
\* the RemovalList of every list of ls, from ranker r on
BuildAll(W, r, ls) ==
    IF r >= Len(ls) THEN W
    ELSE BuildAll(RemovalListInit(W, r, ls[r + 1]), r + 1, ls)

\* _advance without lines 144-145: nothing is appended to the output ranking
advance_without_append(W, ranker_index, f) ==
    LET c == choice_one_of(W, ranker_index, f)
    IN  IF c.W.exc # ""
        THEN [W |-> c.W, value |-> c.value, appended |-> FALSE]
        ELSE [W |-> RemoveFromAll(c.W, 0, c.value), value |-> c.value,
              appended |-> FALSE]

\* Probabilistic._advance : [W, value, appended], appended telling whether
\* the document was appended to the output ranking before any exception
advance(W, ranker_index, f) ==
    LET c == choice_one_of(W, ranker_index, f)
    IN  IF c.W.exc # ""
        THEN [W |-> c.W, value |-> c.value, appended |-> FALSE]
        ELSE [W |-> RemoveFromAll(c.W, 0, c.value), value |-> c.value,
              appended |-> TRUE]

----------------------------------------------------------------------------
(* The shared objects as one record, and back *)

World ==
    [tau |-> tau, member_cache |-> member_cache, sum_cache |-> sum_cache,
     cumulation_cache |-> cumulation_cache, mem |-> mem, pool |-> pool,
     nalloc |-> nalloc, rankings |-> rankings, exc |-> exc]

SetWorld(W) ==
    /\ tau' = W.tau
    /\ member_cache' = W.member_cache
    /\ sum_cache' = W.sum_cache
    /\ cumulation_cache' = W.cumulation_cache
    /\ mem' = W.mem
    /\ pool' = W.pool
    /\ nalloc' = W.nalloc
    /\ rankings' = W.rankings
    /\ exc' = W.exc

\* rankings = [RemovalList(l) for l in ls]
NewRankings(W, ls) ==
    BuildAll([W EXCEPT !.rankings =
                  [r \in 0..(Len(ls) - 1) |->
                      [dict |-> <<>>, last |-> HeadRef(r)]]],
             0, ls)

evalVars == <<clicks, counts, outcome>>
tapeVars == <<recording, run, draw_tape, shuffle_tape, first_result>>

\* The state when the module has been imported
Init ==
    /\ tau = DefaultTau
    /\ member_cache = EmptyCache
    /\ sum_cache = EmptyCache
    /\ cumulation_cache = EmptyCache
    /\ mem = [ref \in Refs |-> BlankNode]
    /\ pool = <<>>
    /\ nalloc = 0
    /\ rankings = <<>>
    /\ exc = ""
    /\ op = "none"
    /\ pc = "idle"
    /\ k = 0
    /\ lists = <<>>
    /\ i = 0
    /\ ranker_indexes = <<>>
    /\ result = <<>>
    /\ rank_to_ranker_index = <<>>
    /\ number_of_rankers = 0
    /\ retval = ""
    /\ steps = 0
    /\ calls = 0
    /\ clicks = <<>>
    /\ counts = <<>>
    /\ outcome = <<>>
    /\ removed = {}
    /\ recording = FALSE
    /\ run = 1
    /\ draw_tape = <<>>
    /\ shuffle_tape = <<>>
    /\ first_result = [result |-> <<>>, rank_to_ranker_index |-> <<>>,
                       retval |-> ""]

\* lines 159-162 of interleave, lines 180-186 of multileave
StartCall(name, kk, ls) ==
    /\ op' = name
    /\ k' = kk
    /\ lists' = ls
    /\ result' = <<>>
    /\ number_of_rankers' = Len(ls)
    /\ rank_to_ranker_index' = <<>>
    /\ SetWorld(NewRankings(World, ls))
    /\ i' = 0
    /\ ranker_indexes' = <<>>
    /\ retval' = ""
    /\ steps' = 0
    /\ calls' = calls + 1
    /\ pc' = IF name = "interleave" THEN "loop" ELSE "round"

\* The draw <<ranker_index, f>> is free in the first run and taken from the
\* tape in the run that reuses the draws
DrawAllowed(d) == run = 2 => (draw_tape # <<>> /\ d = Head(draw_tape))

TapeAfterDraw(d) ==
    IF run = 2 THEN Tail(draw_tape)
    ELSE IF recording THEN Append(draw_tape, d) ELSE draw_tape

\* the test with < in the place of <=
ReturnTestStrict(kk, res) == kk < Len(res)

\* lines 166 and 193: k <= len(result)
ReturnTest(kk, res) == kk <= Len(res)

\* One pass of the body of either loop: _advance, then the test of
\* k <= len(result) with the truncation and the return
LoopBody(ranker_index, f, continue_pc) ==
    LET a == advance(World, ranker_index, f)
        res == IF a.appended THEN Append(result, a.value) ELSE result
        done == a.W.exc = "" /\ ReturnTest(k, res)
        W2 == IF done THEN TruncateAll(a.W, 0) ELSE a.W
    IN  /\ result' = res
        /\ rank_to_ranker_index' =
               IF a.appended THEN Append(rank_to_ranker_index, ranker_index)
               ELSE rank_to_ranker_index
        /\ steps' = steps + 1
        /\ SetWorld(W2)
        /\ pc' = IF W2.exc # "" THEN "raised"
                 ELSE IF done THEN "returned" ELSE continue_pc
        /\ retval' = IF W2.exc = "" /\ done THEN "result" ELSE retval

\* Probabilistic.interleave is called, k <= maxk, a and b holding at most
\* total documents together
InterleaveCalled(maxk, total) ==
    /\ pc = "idle"
    /\ \E kk \in (0 - 1)..maxk, ls \in ListTuples(2, total) :
           StartCall("interleave", kk, ls)
    /\ UNCHANGED <<evalVars, removed, tapeVars>>

InterleaveCall == InterleaveCalled(MaxK, MaxTotal)

\* One iteration of "for i in range(k)"
InterleaveStep ==
    /\ op = "interleave" /\ pc = "loop" /\ i < k
    /\ \E ranker_index \in 0..1, f \in Draws :
           /\ DrawAllowed(<<ranker_index, f>>)
           /\ LoopBody(ranker_index, f, "loop")
           /\ draw_tape' = TapeAfterDraw(<<ranker_index, f>>)
    /\ i' = i + 1
    /\ UNCHANGED <<op, k, lists, ranker_indexes, number_of_rankers, calls,
                   evalVars, removed, recording, run, shuffle_tape,
                   first_result>>

\* range(k) is exhausted: the function ends without a return statement
InterleaveExit ==
    /\ op = "interleave" /\ pc = "loop" /\ i >= k
    /\ pc' = "returned"
    /\ retval' = "None"
    /\ UNCHANGED <<tau, member_cache, sum_cache, cumulation_cache, mem, pool,
                   nalloc, rankings, exc, op, k, lists, i, ranker_indexes,
                   result, rank_to_ranker_index, number_of_rankers, steps,
                   calls, evalVars, removed, tapeVars>>

\* Probabilistic.multileave is called with at most maxn lists
MultileaveCalled(maxk, maxn, total) ==
    /\ pc = "idle"
    /\ \E kk \in (0 - 1)..maxk, n \in 0..maxn :
           \E ls \in ListTuples(n, total) : StartCall("multileave", kk, ls)
    /\ UNCHANGED <<evalVars, removed, tapeVars>>

MultileaveCall == MultileaveCalled(MaxK, MaxRankers, MultiTotal)

\* The shuffle is free in the first run and taken from the tape in the run
\* that reuses the draws; shuffling no index draws nothing
ShuffleAllowed(p) ==
    (run = 2 /\ p # <<>>) => (shuffle_tape # <<>> /\ p = Head(shuffle_tape))

\* lines 188-189: a new round, the indexes shuffled
MultileaveRound ==
    /\ op = "multileave" /\ pc = "round"
    /\ \E p \in Permutations(Cardinality(DOMAIN rankings)) :
           /\ ShuffleAllowed(p)
           /\ ranker_indexes' = p
           /\ pc' = IF 0 < Len(p) THEN "pop" ELSE "round"
           /\ shuffle_tape' = IF p = <<>> THEN shuffle_tape
                              ELSE IF run = 2 THEN Tail(shuffle_tape)
                              ELSE IF recording THEN Append(shuffle_tape, p)
                              ELSE shuffle_tape
    /\ UNCHANGED <<tau, member_cache, sum_cache, cumulation_cache, mem, pool,
                   nalloc, rankings, exc, op, k, lists, i, result,
                   rank_to_ranker_index, number_of_rankers, retval, steps,
                   calls, evalVars, removed, recording, run, draw_tape,
                   first_result>>

\* lines 190-196: one iteration of the inner loop
MultileaveStep ==
    /\ op = "multileave" /\ pc = "pop"
    /\ LET ranker_index == ranker_indexes[Len(ranker_indexes)]
           rest == SubSeq(ranker_indexes, 1, Len(ranker_indexes) - 1)
       IN  /\ ranker_indexes' = rest
           /\ \E f \in Draws :
                  /\ DrawAllowed(<<ranker_index, f>>)
                  /\ LoopBody(ranker_index, f,
                              IF 0 < Len(rest) THEN "pop" ELSE "round")
                  /\ draw_tape' = TapeAfterDraw(<<ranker_index, f>>)
    /\ UNCHANGED <<op, k, lists, i, number_of_rankers, calls, evalVars,
                   removed, recording, run, shuffle_tape, first_result>>

Next ==
    \/ InterleaveCall
    \/ InterleaveStep
    \/ InterleaveExit
    \/ MultileaveCall
    \/ MultileaveRound
    \/ MultileaveStep

Spec == Init /\ [][Next]_vars

----------------------------------------------------------------------------
(* Two runs with the same arguments and the same random draws: the second  *)
(* run starts from the node pool and the memoized tables the first left.   *)

InitReplay ==
    /\ tau = DefaultTau
    /\ member_cache = EmptyCache
    /\ sum_cache = EmptyCache
    /\ cumulation_cache = EmptyCache
    /\ mem = [ref \in Refs |-> BlankNode]
    /\ pool = <<>>
    /\ nalloc = 0
    /\ rankings = <<>>
    /\ exc = ""
    /\ op = "none"
    /\ pc = "idle"
    /\ k = 0
    /\ lists = <<>>
    /\ i = 0
    /\ ranker_indexes = <<>>
    /\ result = <<>>
    /\ rank_to_ranker_index = <<>>
    /\ number_of_rankers = 0
    /\ retval = ""
    /\ steps = 0
    /\ calls = 0
    /\ clicks = <<>>
    /\ counts = <<>>
    /\ outcome = <<>>
    /\ removed = {}
    /\ recording = TRUE
    /\ run = 1
    /\ draw_tape = <<>>
    /\ shuffle_tape = <<>>
    /\ first_result = [result |-> <<>>, rank_to_ranker_index |-> <<>>,
                       retval |-> ""]

ReplayInterleaveCall == InterleaveCalled(ReplayK, ReplayTotal)

ReplayMultileaveCall == MultileaveCalled(ReplayK, ReplayRankers, ReplayTotal)

\* The first run has returned: the same call is made again
SecondRun ==
    /\ pc = "returned" /\ recording /\ run = 1
    /\ run' = 2
    /\ first_result' = [result |-> result,
                        rank_to_ranker_index |-> rank_to_ranker_index,
                        retval |-> retval]
    /\ StartCall(op, k, lists)
    /\ UNCHANGED <<evalVars, removed, recording, draw_tape, shuffle_tape>>

NextReplay ==
    \/ ReplayInterleaveCall
    \/ ReplayMultileaveCall
    \/ InterleaveStep
    \/ InterleaveExit
    \/ MultileaveRound
    \/ MultileaveStep
    \/ SecondRun

SpecReplay == InitReplay /\ [][NextReplay]_vars

----------------------------------------------------------------------------
(* Properties of interleave and multileave *)

IsCall == op \in {"interleave", "multileave"}

\* the distinct documents of the input lists
AllDocs == UNION {Range(lists[n]) : n \in 1..Len(lists)}

Returned == IsCall /\ pc = "returned"

\* C1: for k >= 1 the result of interleave has length
\* min(k, number of distinct documents of a and b)
C1_LengthIsMin ==
    (op = "interleave" /\ pc = "returned" /\ k >= 1)
        => (retval = "result" /\ Len(result) = Min(k, Cardinality(AllDocs)))

\* C2: the result of interleave and of multileave holds no document twice,
\* and every entry of it is a document of one of the input lists
C2_NoRepeatAllFromInputs ==
    (Returned /\ retval = "result")
        => (IsDistinct(result) /\ Range(result) \subseteq AllDocs)

\* the positions m*N .. m*N+N-1 of the ranker-index sequence, 1-based
Round(m) ==
    SubSeq(rank_to_ranker_index, m * number_of_rankers + 1,
           (m + 1) * number_of_rankers)

\* C4: in multileave with N rankers every completed round of the
\* ranker-index sequence holds each ranker index exactly once
C4_RoundsAreFair ==
    (op = "multileave" /\ number_of_rankers >= 1)
        => \A m \in 0..MaxK :
               (m + 1) * number_of_rankers <= Len(rank_to_ranker_index)
                   => \A r \in 0..(number_of_rankers - 1) :
                          Cardinality({n \in 1..number_of_rankers :
                                          Round(m)[n] = r}) = 1

\* a multileave over three rankers, one of them with an empty list, has
\* returned a full round
C4_Witness ==
    /\ op = "multileave" /\ pc = "returned" /\ number_of_rankers = 3
    /\ Len(rank_to_ranker_index) = 3
    /\ \E n \in 1..3 : lists[n] = <<>>
    /\ \E n \in 1..3 : lists[n] # <<>>

\* C5: a call with k >= 1 (multileave: with at least one list) never raises,
\* has made fewer than k advance steps while it runs, can always make the
\* next one, and has returned its result once it has made k of them
C5_ReturnsWithinKSteps ==
    (IsCall /\ k >= 1 /\ number_of_rankers >= 1)
        => /\ exc = "" /\ pc \in {"loop", "round", "pop", "returned"}
           /\ pc = "returned" => (retval = "result" /\ steps = k)
           /\ pc # "returned" => steps < k
           /\ pc = "loop" => i < k
           /\ pc = "pop" => ranker_indexes # <<>>

\* a call with lists shorter than k, one of them empty, has returned after
\* k advance steps
C5_Witness ==
    /\ Returned /\ k >= 2 /\ steps = k /\ retval = "result"
    /\ Cardinality(AllDocs) < k
    /\ \E n \in 1..Len(lists) : lists[n] = <<>>

\* C6: multileave called with no list fails: it is never found running
\* its loop
C6_ZeroRankersFail ==
    (op = "multileave" /\ number_of_rankers = 0) => pc = "raised"

\* C7: interleave and multileave called with k <= 0 fail: they never return
C7_NonPositiveKFails ==
    (IsCall /\ k <= 0) => pc # "returned"

----------------------------------------------------------------------------
(* Determinism *)

\* C9: the run that reuses the draws of the first run ends as the first
\* run did: it returns, with the same documents and the same ranker indexes
C9_SameDrawsSameResult ==
    (run = 2 /\ pc \in {"returned", "raised"})
        => /\ pc = "returned"
           /\ result = first_result.result
           /\ rank_to_ranker_index = first_result.rank_to_ranker_index
           /\ retval = first_result.retval

\* the second run has returned two documents, built from pooled nodes
C9_Witness ==
    /\ run = 2 /\ pc = "returned" /\ retval = "result"
    /\ Len(result) = 2 /\ None \notin Range(result)
    /\ nalloc = 2

----------------------------------------------------------------------------
(* Probabilistic.evaluate, on the rankings interleave and multileave make   *)

\* the ranker-index sequences of up to maxlen entries a call over n rankers
\* can return: any for two rankers (interleave), rounds of distinct indexes
\* otherwise (multileave)
RankerSequences(n, maxlen) ==
    {s \in SeqsUpTo(0..(n - 1), maxlen) :
        n = 2 \/ \A a, b \in 1..Len(s) :
                     (a # b /\ (a - 1) \div n = (b - 1) \div n) => s[a] # s[b]}

InitEval ==
    /\ tau = DefaultTau
    /\ member_cache = EmptyCache
    /\ sum_cache = EmptyCache
    /\ cumulation_cache = EmptyCache
    /\ mem = [ref \in Refs |-> BlankNode]
    /\ pool = <<>>
    /\ nalloc = 0
    /\ rankings = <<>>
    /\ exc = ""
    /\ op = "evaluate"
    /\ pc = "tally"
    /\ k = 0
    /\ lists = <<>>
    /\ i = 0
    /\ ranker_indexes = <<>>
    /\ number_of_rankers \in 1..MaxRankers
    /\ rank_to_ranker_index \in RankerSequences(number_of_rankers, MaxResult)
    /\ result = [n \in 1..Len(rank_to_ranker_index) |-> n]
    /\ retval = ""
    /\ steps = 0
    /\ calls = 0
    /\ clicks \in SeqsUpTo((0 - Len(result) - 1)..Len(result), MaxClicks)
    /\ counts = [n \in 1..number_of_rankers |-> 0]
    /\ outcome = <<>>
    /\ removed = {}
    /\ recording = FALSE
    /\ run = 1
    /\ draw_tape = <<>>
    /\ shuffle_tape = <<>>
    /\ first_result = [result |-> <<>>, rank_to_ranker_index |-> <<>>,
                       retval |-> ""]

\* whether s[d] is defined for a Python list of n entries
IndexInRange(d, n) == 0 - n <= d /\ d < n

\* the 0-based position s[d] reads: a negative d counts from the end
IndexPosition(d, n) == IF d < 0 THEN n + d ELSE d

\* lines 210-211: one iteration of "for d in clicks"
EvaluateClick ==
    /\ op = "evaluate" /\ pc = "tally" /\ i < Len(clicks)
    /\ LET d == clicks[i + 1]
           n == Len(rank_to_ranker_index)
       IN  IF IndexInRange(d, n)
           THEN LET r == rank_to_ranker_index[IndexPosition(d, n) + 1]
                IN  /\ counts' = [counts EXCEPT ![r + 1] = @ + 1]
                    /\ i' = i + 1
                    /\ UNCHANGED <<exc, pc>>
           ELSE /\ exc' = "IndexError"
                /\ pc' = "raised"
                /\ UNCHANGED <<counts, i>>
    /\ UNCHANGED <<tau, member_cache, sum_cache, cumulation_cache, mem, pool,
                   nalloc, rankings, op, k, lists, ranker_indexes, result,
                   rank_to_ranker_index, number_of_rankers, retval, steps,
                   calls, clicks, outcome, removed, tapeVars>>

\* wins with >= in the place of > and <= in the place of <
compare_loosely(c, a, b) ==
    IF c[a + 1] >= c[b + 1] THEN <<<<a, b>>>>
    ELSE IF c[a + 1] <= c[b + 1] THEN <<<<b, a>>>>
    ELSE <<>>

\* lines 216-221: what the pair i = a, j = b adds to the result
compare(c, a, b) ==
    IF c[a + 1] > c[b + 1] THEN <<<<a, b>>>>
    ELSE IF c[a + 1] < c[b + 1] THEN <<<<b, a>>>>
    ELSE <<>>

RECURSIVE PairsFrom(_, _, _, _)
\* lines 214-221: the loops from i = a, j = b on, over n rankers
PairsFrom(c, a, b, n) ==
    IF a >= n THEN <<>>
    ELSE IF b >= n THEN PairsFrom(c, a + 1, a + 2, n)
    ELSE compare(c, a, b) \o PairsFrom(c, a, b + 1, n)

\* lines 213-222: the pairs are built and returned
EvaluatePairs ==
    /\ op = "evaluate" /\ pc = "tally" /\ i = Len(clicks)
    /\ outcome' = PairsFrom(counts, 0, 1, number_of_rankers)
    /\ pc' = "returned"
    /\ retval' = "pairs"
    /\ UNCHANGED <<tau, member_cache, sum_cache, cumulation_cache, mem, pool,
                   nalloc, rankings, exc, op, k, lists, i, ranker_indexes,
                   result, rank_to_ranker_index, number_of_rankers, steps,
                   calls, clicks, counts, removed, tapeVars>>

NextEval ==
    \/ EvaluateClick
    \/ EvaluatePairs

SpecEval == InitEval /\ [][NextEval]_vars

\* every click is a position 0 .. len(result)-1 of the result
ClicksInBounds ==
    \A n \in 1..Len(clicks) : clicks[n] \in 0..(Len(result) - 1)

\* the number of clicks on positions assigned to ranker r
Clicked(r) ==
    Cardinality({n \in 1..Len(clicks) :
                    rank_to_ranker_index[clicks[n] + 1] = r})

\* C3: evaluate counts for each ranker the clicks on its positions and
\* returns (i, j) exactly when ranker i has strictly more clicks than j,
\* each pair once, and nothing when there is no click
C3_PairsAreStrictWins ==
    (op = "evaluate" /\ pc = "returned" /\ ClicksInBounds)
        => /\ \A r \in 0..(number_of_rankers - 1) : counts[r + 1] = Clicked(r)
           /\ \A a, b \in 0..(number_of_rankers - 1) :
                  <<a, b>> \in Range(outcome)
                      <=> (a # b /\ Clicked(a) > Clicked(b))
           /\ IsDistinct(outcome)
           /\ clicks = <<>> => outcome = <<>>

\* three rankers: one won against both others, which tie
C3_Witness ==
    /\ op = "evaluate" /\ pc = "returned" /\ ClicksInBounds
    /\ number_of_rankers = 3
    /\ Len(clicks) = 2
    /\ Len(outcome) = 2
    /\ \E a, b \in 0..2 : a # b /\ Clicked(a) = Clicked(b)

\* C8: evaluate fails whenever a click lies outside 0 .. len(result)-1
C8_OutOfBoundsClickFails ==
    (op = "evaluate" /\ ~ClicksInBounds) => pc # "returned"

----------------------------------------------------------------------------
(* One RemovalList, built from a list and then shrunk by remove             *)

InitList ==
    /\ tau = DefaultTau
    /\ member_cache = EmptyCache
    /\ sum_cache = EmptyCache
    /\ cumulation_cache = EmptyCache
    /\ exc = ""
    /\ op = "list"
    /\ pc = "list"
    /\ k = 0
    /\ \E n \in 0..MaxListLen : \E l \in DocStrings(n) :
           /\ lists = <<l>>
           /\ LET W == NewRankings(
                           [tau |-> DefaultTau, member_cache |-> EmptyCache,
                            sum_cache |-> EmptyCache,
                            cumulation_cache |-> EmptyCache,
                            mem |-> [ref \in Refs |-> BlankNode],
                            pool |-> <<>>, nalloc |-> 0, rankings |-> <<>>,
                            exc |-> ""], <<l>>)
              IN  /\ mem = W.mem
                  /\ pool = W.pool
                  /\ nalloc = W.nalloc
                  /\ rankings = W.rankings
    /\ i = 0
    /\ ranker_indexes = <<>>
    /\ result = <<>>
    /\ rank_to_ranker_index = <<>>
    /\ number_of_rankers = 1
    /\ retval = ""
    /\ steps = 0
    /\ calls = 0
    /\ clicks = <<>>
    /\ counts = <<>>
    /\ outcome = <<>>
    /\ removed = {}
    /\ recording = FALSE
    /\ run = 1
    /\ draw_tape = <<>>
    /\ shuffle_tape = <<>>
    /\ first_result = [result |-> <<>>, rank_to_ranker_index |-> <<>>,
                       retval |-> ""]

listFrame == <<op, pc, k, lists, i, ranker_indexes, result,
               rank_to_ranker_index, number_of_rankers, retval, steps, calls,
               evalVars, tapeVars>>

\* RemovalList.remove is called with a document the list may or may not hold
ListRemove ==
    /\ op = "list" /\ exc = ""
    /\ \E value \in 1..(MaxListLen + 1) :
           /\ SetWorld(remove(World, 0, value))
           /\ removed' = removed \cup {value}
    /\ UNCHANGED listFrame

\* RemovalList.truncate is called
ListTruncate ==
    /\ op = "list" /\ exc = ""
    /\ SetWorld(truncate(World, 0))
    /\ removed' = removed \cup Range(DictKeys(rankings[0].dict))
    /\ UNCHANGED listFrame

NextList ==
    \/ ListRemove
    \/ ListTruncate

SpecList == InitList /\ [][NextList]_vars

RECURSIVE Surviving(_)
\* the documents of l that were not removed, in the order of l
Surviving(l) ==
    IF l = <<>> THEN <<>>
    ELSE (IF Head(l) \in removed THEN <<>> ELSE <<Head(l)>>)
             \o Surviving(Tail(l))

\* the walk that yields the documents of s, one a step, and never raises
Yielded(s) == [n \in 1..Len(s) |-> [value |-> s[n], exc |-> ""]]

\* C10: for a RemovalList built from pairwise distinct documents, walking
\* get_length() steps from the head yields the documents not yet removed,
\* in their original order, and the length is 0 once all are removed
C10_WalkYieldsSurvivors ==
    (op = "list" /\ IsDistinct(lists[1]))
        => /\ exc = ""
           /\ Walk(mem, HeadRef(0), get_length(World, 0))
                  = Yielded(Surviving(lists[1]))
           /\ Range(lists[1]) \subseteq removed => get_length(World, 0) = 0

\* the first and the last of three documents were removed
C10_Witness ==
    /\ op = "list" /\ lists = <<<<1, 2, 3>>>> /\ removed = {1, 3}
    /\ get_length(World, 0) = 1

RECURSIVE Linked(_, _, _)
\* the documents linked from node on, up to the node whose next is None
\* (at most fuel of them: a chain that loops is cut there)
Linked(m, node, fuel) ==
    IF fuel = 0 \/ node = None \/ m[node].next = None THEN <<>>
    ELSE <<m[node].next_value>> \o Linked(m, m[node].next, fuel - 1)

RECURSIVE FirstOccurrences(_)
\* l without the later occurrences of a document it holds already
FirstOccurrences(l) ==
    IF l = <<>> THEN <<>>
    ELSE LET front == FirstOccurrences(SubSeq(l, 1, Len(l) - 1))
         IN  IF l[Len(l)] \in Range(front) THEN front
             ELSE Append(front, l[Len(l)])

\* C11: a RemovalList just built from a list, repeated documents included,
\* links every document once, at the position of its first occurrence: the
\* linked documents hold no repeat and there are get_length() of them
C11_FirstOccurrenceWins ==
    (op = "list" /\ removed = {})
        => LET linked == Linked(mem, HeadRef(0), NumNodes + 1)
           IN  /\ linked = FirstOccurrences(lists[1])
               /\ IsDistinct(linked)
               /\ Len(linked) = get_length(World, 0)

\* C18: remove(x) of a document the sequence does not hold, because it was
\* never added or was removed already, changes nothing (links, lookup
\* table, length, node pool), and remove(x) twice leaves the state that
\* remove(x) once leaves
C18_RemoveIsIdempotent ==
    op = "list"
        => \A x \in 1..(MaxListLen + 1) :
               /\ (x \notin Range(lists[1]) \/ x \in removed)
                      => remove(World, 0, x) = World
               /\ remove(remove(World, 0, x), 0, x) = remove(World, 0, x)

----------------------------------------------------------------------------
(* One CumulationCache(tau) and one RemovalList: tables are looked up,     *)
(* documents are chosen with choice_one_of and removed.                    *)

\* the values of tau the tables are built for
Taus == {1, 2, DefaultTau}

InitChoose ==
    /\ op = "choose"
    /\ pc = "choose"
    /\ k = 0
    /\ tau \in Taus
    /\ member_cache = EmptyCache
    /\ sum_cache = EmptyCache
    /\ cumulation_cache = EmptyCache
    /\ exc = ""
    /\ \E n \in 0..MaxListLen :
       \E l \in DocStrings(n) :
           /\ lists = <<l>>
           /\ LET W == NewRankings(
                           [tau |-> DefaultTau, member_cache |-> EmptyCache,
                            sum_cache |-> EmptyCache,
                            cumulation_cache |-> EmptyCache,
                            mem |-> [ref \in Refs |-> BlankNode],
                            pool |-> <<>>, nalloc |-> 0, rankings |-> <<>>,
                            exc |-> ""], <<l>>)
              IN  /\ mem = W.mem
                  /\ pool = W.pool
                  /\ nalloc = W.nalloc
                  /\ rankings = W.rankings
    /\ i = 0
    /\ ranker_indexes = <<>>
    /\ result = <<>>
    /\ rank_to_ranker_index = <<>>
    /\ number_of_rankers = 1
    /\ retval = ""
    /\ steps = 0
    /\ calls = 0
    /\ clicks = <<>>
    /\ counts = <<>>
    /\ outcome = <<>>
    /\ removed = {}
    /\ recording = FALSE
    /\ run = 1
    /\ draw_tape = <<>>
    /\ shuffle_tape = <<>>
    /\ first_result = [result |-> <<>>, rank_to_ranker_index |-> <<>>,
                       retval |-> ""]

chooseFrame == <<op, k, lists, i, ranker_indexes, rank_to_ranker_index,
                 number_of_rankers, retval, steps, calls, evalVars, recording,
                 run, shuffle_tape, first_result>>

\* self[n] is read on the CumulationCache
TableLookup ==
    /\ op = "choose" /\ exc = ""
    /\ \E n \in 0..MaxListLen : SetWorld(CacheLookup(World, n))
    /\ UNCHANGED <<pc, result, draw_tape, removed, chooseFrame>>

\* choice_one_of(ranking) is called: result keeps the document returned
\* and draw_tape the draw f it was chosen with
ChooseDraw ==
    /\ op = "choose" /\ exc = ""
    /\ \E f \in ChooseDraws :
           LET c == choice_one_of(World, 0, f)
           IN  /\ SetWorld(c.W)
               /\ result' = <<c.value>>
               /\ draw_tape' = <<<<0, f>>>>
    /\ pc' = "chosen"
    /\ UNCHANGED <<removed, chooseFrame>>

\* ranking.remove(value) is called with a document of the list
ChooseRemove ==
    /\ op = "choose" /\ exc = ""
    /\ \E value \in Range(lists[1]) :
           /\ SetWorld(remove(World, 0, value))
           /\ removed' = removed \cup {value}
    /\ pc' = "choose"
    /\ result' = <<>>
    /\ draw_tape' = <<>>
    /\ UNCHANGED chooseFrame

NextChoose ==
    \/ TableLookup
    \/ ChooseDraw
    \/ ChooseRemove

SpecChoose == InitChoose /\ [][NextChoose]_vars

RECURSIVE Gcd(_, _)
Gcd(a, b) == IF b = 0 THEN a ELSE Gcd(b, a % b)

\* the rational x in lowest terms
Norm(x) == LET g == Gcd(x[1], x[2]) IN <<x[1] \div g, x[2] \div g>>

RECURSIVE PowerSum(_, _)
\* the sum of 1 / r^t for r in 1..n, in lowest terms
PowerSum(t, n) ==
    IF n = 0 THEN <<0, 1>>
    ELSE Norm(RatAdd(PowerSum(t, n - 1), <<1, Power(n, t)>>))

\* C12: the cumulative table for (tau, n), n >= 1, has exactly n
\* entries, is non-decreasing, has the entry of index i < n-1 equal to
\* (sum of 1/r^tau, r in 1..i+1) / (sum of 1/r^tau, r in 1..n), and has
\* last entry exactly 1
C12_TableIsCumulative ==
    op = "choose"
        => \A n \in DOMAIN cumulation_cache :
               n >= 1 =>
                   LET table == cumulation_cache[n]
                   IN  /\ Len(table) = n
                       /\ table[n] = <<1, 1>>
                       /\ \A j \in 1..(n - 1) :
                              /\ Norm(table[j]) =
                                     Norm(RatDiv(PowerSum(tau, j),
                                                 PowerSum(tau, n)))
                              /\ RatLeq(Norm(table[j]), Norm(table[j + 1]))

\* the table for tau = 1 and n = 3 is held: 6/11, 9/11, 1
C12_Witness ==
    /\ op = "choose" /\ tau = 1 /\ 3 \in DOMAIN cumulation_cache
    /\ Norm(cumulation_cache[3][1]) = <<6, 11>>
    /\ Norm(cumulation_cache[3][2]) = <<9, 11>>

\* C15: on a nonempty sequence of pairwise distinct documents,
\* choice_one_of with the draw f returns the surviving element at the first
\* index whose table entry, in the table for the current length, exceeds f:
\* it raises nothing and never ends the scan without a document
C15_ChooseReturnsFirstBelow ==
    (op = "choose" /\ pc = "chosen" /\ IsDistinct(lists[1])
                   /\ get_length(World, 0) > 0)
        => LET n == get_length(World, 0)
               f == draw_tape[1][2]
               table == cumulation_cache[n]
               surviving == Surviving(lists[1])
               first == CHOOSE j \in 1..n :
                            /\ RatLess(f, table[j])
                            /\ \A m \in 1..(j - 1) : ~RatLess(f, table[m])
           IN  /\ exc = ""
               /\ \E j \in 1..n : RatLess(f, table[j])
               /\ result = <<surviving[first]>>
               /\ result[1] # None

\* after 1 was removed from <<1, 2, 3>>, the draw 15/16 passes the first
\* entry 8/9 of the table for tau = 3 and length 2: the second survivor
C15_Witness ==
    /\ op = "choose" /\ pc = "chosen" /\ tau = DefaultTau
    /\ lists = <<<<1, 2, 3>>>> /\ removed = {1}
    /\ draw_tape = <<<<0, <<15, 16>>>>>>
    /\ result = <<3>>

----------------------------------------------------------------------------
(* One RemovalList, empty at first: documents that were not appended       *)
(* before are appended, and appended documents are removed, in any order.  *)

InitAppends ==
    /\ op = "appends"
    /\ pc = "appends"
    /\ k = 0
    /\ tau = DefaultTau
    /\ member_cache = EmptyCache
    /\ sum_cache = EmptyCache
    /\ cumulation_cache = EmptyCache
    /\ exc = ""
    /\ lists = <<<<>>>>
    /\ LET W == NewRankings(
                    [tau |-> DefaultTau, member_cache |-> EmptyCache,
                     sum_cache |-> EmptyCache,
                     cumulation_cache |-> EmptyCache,
                     mem |-> [ref \in Refs |-> BlankNode],
                     pool |-> <<>>, nalloc |-> 0, rankings |-> <<>>,
                     exc |-> ""], <<<<>>>>)
       IN  /\ mem = W.mem
           /\ pool = W.pool
           /\ nalloc = W.nalloc
           /\ rankings = W.rankings
    /\ i = 0
    /\ ranker_indexes = <<>>
    /\ result = <<>>
    /\ rank_to_ranker_index = <<>>
    /\ number_of_rankers = 1
    /\ retval = ""
    /\ steps = 0
    /\ calls = 0
    /\ clicks = <<>>
    /\ counts = <<>>
    /\ outcome = <<>>
    /\ removed = {}
    /\ recording = FALSE
    /\ run = 1
    /\ draw_tape = <<>>
    /\ shuffle_tape = <<>>
    /\ first_result = [result |-> <<>>, rank_to_ranker_index |-> <<>>,
                       retval |-> ""]

appendsFrame == <<op, pc, k, i, ranker_indexes, result, rank_to_ranker_index,
                  number_of_rankers, retval, steps, calls, evalVars,
                  tapeVars>>

\* RemovalList.append is called with a document not appended before:
\* lists[1] keeps the documents appended, in the order of the calls
AppendsAppend ==
    /\ op = "appends" /\ exc = ""
    /\ Len(lists[1]) < MaxAppends
    /\ LET value == Len(lists[1]) + 1
       IN  /\ SetWorld(append(World, 0, value))
           /\ lists' = <<Append(lists[1], value)>>
    /\ UNCHANGED <<removed, appendsFrame>>

\* RemovalList.remove is called with a document that was appended
AppendsRemove ==
    /\ op = "appends" /\ exc = ""
    /\ \E value \in Range(lists[1]) :
           /\ SetWorld(remove(World, 0, value))
           /\ removed' = removed \cup {value}
    /\ UNCHANGED <<lists, appendsFrame>>

NextAppends ==
    \/ AppendsAppend
    \/ AppendsRemove

SpecAppends == InitAppends /\ [][NextAppends]_vars

\* C19: after any interleaving of append and remove on one RemovalList
\* over pairwise distinct documents, the traversal from the head yields
\* exactly the documents appended and not yet removed, in the order they
\* were appended, and there are get_length() of them
C19_TraversalAfterAppendAndRemove ==
    op = "appends"
        => /\ exc = ""
           /\ Linked(mem, HeadRef(0), NumNodes + 1) = Surviving(lists[1])
           /\ Walk(mem, HeadRef(0), get_length(World, 0))
                  = Yielded(Surviving(lists[1]))
           /\ get_length(World, 0) = Len(Surviving(lists[1]))

----------------------------------------------------------------------------
(* Properties of the advance steps of interleave and multileave *)

\* the surviving elements of the sequence of ranker r: what get_length()
\* steps from its head yield, in the heap m with the lists rk
SurvivingOf(m, rk, r) == Walk(m, HeadRef(r), Len(rk[r].dict))

\* the documents a walk yields
DocumentsOf(w) == {w[n].value : n \in 1..Len(w)}

\* _advance was run once and the call goes on (the lists are not truncated)
AdvanceStep ==
    /\ IsCall
    /\ steps' = steps + 1
    /\ pc' \in {"loop", "round", "pop"}

\* C13: after an advance step that chose the document d, d is a surviving
\* element of no sequence of the call, every sequence that held d is
\* shorter by exactly one and the other sequences have the length they had
C13_ChosenLeavesEverySequence ==
    [][(AdvanceStep /\ Len(result') = Len(result) + 1
                    /\ result'[Len(result')] # None)
           => LET d == result'[Len(result')]
              IN  \A r \in DOMAIN rankings :
                      /\ d \notin DocumentsOf(SurvivingOf(mem', rankings', r))
                      /\ Len(rankings'[r].dict) =
                             IF d \in DocumentsOf(SurvivingOf(mem, rankings, r))
                             THEN Len(rankings[r].dict) - 1
                             ELSE Len(rankings[r].dict)]_vars

\* C14: the ranker picked for an advance step has a nonempty surviving
\* sequence (choice_one_of is not run on a sequence of length 0), and the
\* step appends a document, never the None of an empty sequence
C14_PickedRankerIsNonempty ==
    [][(IsCall /\ steps' = steps + 1
               /\ Len(rank_to_ranker_index') = Len(rank_to_ranker_index) + 1)
           => LET r == rank_to_ranker_index'[Len(rank_to_ranker_index')]
              IN  /\ get_length(World, r) > 0
                  /\ result'[Len(result')] # None]_vars

\* C16: when the call returns its result, every sequence built for it
\* has length 0 and every node made for them (the pool was empty when the
\* call began) is in the pool
C16_AllNodesBackInPool ==
    (Returned /\ retval = "result")
        => /\ \A r \in DOMAIN rankings : get_length(World, r) = 0
           /\ Range(pool) = 1..nalloc

\* the largest get_length() over the lists rk
MaxLength(rk) ==
    IF DOMAIN rk = {} THEN 0
    ELSE CHOOSE n \in {Len(rk[r].dict) : r \in DOMAIN rk} :
             \A r \in DOMAIN rk : Len(rk[r].dict) <= n

\* C17 as stated: every advance step lowers the maximum surviving length
\* over the sequences of the call by at least one
C17_MaxLengthStrictlyDecreases ==
    [][AdvanceStep => MaxLength(rankings') <= MaxLength(rankings) - 1]_vars

\* C17 amended: every advance step appends exactly one entry to the result,
\* so that k - len(result) goes down by one with every step, and the call
\* goes on after the step only while len(result) < k; such a step leaves
\* the length of every sequence as it was or one lower, so the maximum
\* surviving length never goes up and goes down by at most one
C17_ResultGrowsLengthsNeverDo ==
    [][(IsCall /\ steps' = steps + 1)
           => /\ Len(result') = Len(result) + 1
              /\ AdvanceStep
                     => /\ Len(result') < k
                        /\ \A r \in DOMAIN rankings :
                               Len(rankings'[r].dict) \in
                                   {Len(rankings[r].dict) - 1,
                                    Len(rankings[r].dict)}
                        /\ MaxLength(rankings') \in
                               {MaxLength(rankings) - 1,
                                MaxLength(rankings)}]_vars

\* the first step of interleave on [1, 2] and [3] chose 3 from the shorter
\* list: the longest sequence still has its two documents
C17_Witness ==
    /\ op = "interleave" /\ pc = "loop" /\ steps = 1
    /\ lists = <<<<1, 2>>, <<3>>>>
    /\ result = <<3>>
    /\ MaxLength(rankings) = 2

----------------------------------------------------------------------------
(* A series of calls of interleave and multileave on one Probabilistic,    *)
(* each made when the one before has returned: RemovalNode._pool and the   *)
(* memoized tables are shared, so a call builds its sequences from the     *)
(* nodes the calls before it have drained.  The series has at most         *)
(* SeriesCalls calls.                                                      *)

SeriesInterleaveCall ==
    /\ pc \in {"idle", "returned"}
    /\ calls < SeriesCalls
    /\ \E kk \in 0..SeriesK, ls \in ListTuples(2, SeriesTotal) :
           StartCall("interleave", kk, ls)
    /\ UNCHANGED <<evalVars, removed, tapeVars>>

SeriesMultileaveCall ==
    /\ pc \in {"idle", "returned"}
    /\ calls < SeriesCalls
    /\ \E kk \in 0..SeriesK, n \in 1..2 :
           \E ls \in ListTuples(n, SeriesTotal) :
               StartCall("multileave", kk, ls)
    /\ UNCHANGED <<evalVars, removed, tapeVars>>

NextSeries ==
    \/ SeriesInterleaveCall
    \/ SeriesMultileaveCall
    \/ InterleaveStep
    \/ InterleaveExit
    \/ MultileaveRound
    \/ MultileaveStep

SpecSeries == Init /\ [][NextSeries]_vars

RECURSIVE NodesFrom(_, _, _)
\* the nodes reached from node by the next links (at most fuel of them)
NodesFrom(m, node, fuel) ==
    IF fuel = 0 \/ node = None \/ m[node].next = None THEN {}
    ELSE {m[node].next} \cup NodesFrom(m, m[node].next, fuel - 1)

\* the nodes of the sequence of ranker r
NodesOf(r) == NodesFrom(mem, HeadRef(r), NumNodes + 1)

\* the call is running: its sequences are in use
InUse == IsCall /\ pc \in {"loop", "round", "pop"}

\* C20: in a series of calls no node is in the pool twice; while a call
\* runs no node is both in the pool and reached from the head of one of its
\* sequences, and no node is reached from two heads; a sequence just built,
\* from reused nodes or new ones, is traversed as the list it was built from
C20_NodeOwnershipIsExclusive ==
    /\ IsDistinct(pool)
    /\ InUse =>
           /\ \A r \in DOMAIN rankings : NodesOf(r) \cap Range(pool) = {}
           /\ \A r, q \in DOMAIN rankings :
                  r # q => NodesOf(r) \cap NodesOf(q) = {}
           /\ steps = 0 =>
                  \A r \in DOMAIN rankings :
                      Linked(mem, HeadRef(r), NumNodes + 1) = lists[r + 1]

\* the second call of a series runs on a sequence of two documents made of
\* the only two nodes that exist, linked 2 -> 1.  The first call had drawn
\* from a sequence of two documents (the table of length 2 is there before
\* the second call draws), so it had linked them 1 -> 2 and drained both;
\* the second call popped 2 before 1, so node 1 was pooled first, by the
\* removal of the first document, holding the second document and its link
\* to node 2 when it was pooled
C20_Witness ==
    /\ InUse /\ steps = 0 /\ calls = 2
    /\ nalloc = 2 /\ pool = <<>>
    /\ 2 \in DOMAIN cumulation_cache
    /\ mem[HeadRef(0)].next = 2 /\ mem[2].next = 1
    /\ Linked(mem, HeadRef(0), NumNodes + 1) = lists[1]

TypeOK ==
    /\ nalloc <= NumNodes
    /\ exc = ""

====
